---- MODULE Spec2Model ----
(***************************************************************************)
(* A model of the leaderboard engine of server/core_leaderboard.go: the    *)
(* record write state machine (LeaderboardRecordWrite, -Delete,            *)
(* -sDeleteAll), the keyset-paginated listing (LeaderboardRecordsList),    *)
(* the haystack window (getLeaderboardRecordsHaystack), the cursor codec   *)
(* and the expiry calculation.                                             *)
(*                                                                         *)
(* The table leaderboard_record is the set `store` of rows; the rank       *)
(* index (LeaderboardRankCache) is the set `rankCache` of entries.  Owner  *)
(* ids are numbers standing for UUIDs in their sort order; 0 is uuid.Nil.  *)
(* A Go nil pointer, an SQL NULL and the empty cursor string are the empty *)
(* sequence <<>>; a value that is present is a one-element sequence.       *)
(***************************************************************************)
EXTENDS Integers, Sequences, FiniteSets

\* ------------------------------------------------------------------ bounds

\* The largest value of the signed integer type of score and subscore
\* (int64 in Go, BIGINT in the store), scaled down; the smallest follows.
MaxInt64 == 1
MinInt64 == -MaxInt64 - 1
Int64 == MinInt64 .. MaxInt64

\* Writes are issued to a record while its num_score is below this.
MaxNumScore == 2
\* The clock runs from 0 to MaxNow.
MaxNow == 1
\* The reset schedule of a resetting leaderboard fires at the multiples of this.
ResetPeriod == 1
\* Rows the store holds at most under Spec.
MaxRows == 1
\* Owners 1 .. NumOwners submit scores.
NumOwners == 2
\* Owners 1 .. NumListOwners submit scores to the leaderboard that is listed.
NumListOwners == 3
\* Rows the store holds at most under SpecList.
MaxListRows == 3
\* Page sizes 1 .. MaxLimit are asked for.
MaxLimit == 2
\* Processes 1 .. NumProcs write concurrently under SpecRace.
NumProcs == 2

\* Owners, and the largest page size, of the static-store machine.
NumStaticOwners == 5
MaxStaticLimit == 4

\* The longest cycle of a reset schedule, and the last instant of the reset machine.
CronCycle == 4
MaxResetNow == 12

Owners == 1 .. NumOwners

\* ----------------------------------------------------- program constants

\* uuid.Nil, the caller of a server-side request.
UuidNil == 0

Nil == <<>>

LeaderboardSortOrderAscending == "ascending"
LeaderboardSortOrderDescending == "descending"

LeaderboardOperatorBest == "best"
LeaderboardOperatorSet == "set"
LeaderboardOperatorIncrement == "increment"
LeaderboardOperatorDecrement == "decrement"

\* api.Operator, the override a write carries.
Operator_NO_OVERRIDE == "NO_OVERRIDE"
Operator_BEST == "BEST"
Operator_SET == "SET"
Operator_INCREMENT == "INCREMENT"
Operator_DECREMENT == "DECREMENT"
\* A value of the enum's integer type outside the declared ones.
Operator_UNKNOWN == "UNKNOWN"

ErrNone == "ok"
ErrLeaderboardNotFound == "leaderboard not found"
ErrLeaderboardAuthoritative == "leaderboard only allows authoritative submissions"
ErrLeaderboardInvalidCursor == "leaderboard cursor invalid"
ErrInvalidOperator == "invalid operator"
\* Any other error of the store (here: BIGINT out of range), propagated as is.
ErrStore == "store error"
\* sql.ErrNoRows
ErrNoRows == "sql: no rows in result set"

\* The column default of leaderboard_record.num_score.
DefaultNumScore == 1
\* COALESCE($6, '{}'::JSONB)
EmptyJSON == "{}"

VARIABLES
    leaderboards,   \* the definition cache: leaderboard id -> definition
    store,          \* the rows of leaderboard_record
    rankCache,      \* the entries of the rank index
    now,            \* time.Now(), in epoch seconds
    resp,           \* what the last request returned
    procs           \* the writes in flight: process -> its position and locals

vars == <<leaderboards, store, rankCache, now, resp, procs>>

\* ------------------------------------------------------ definition cache

\* A leaderboard definition; reset_schedule is Nil or <<period>>.
Definition(sortOrder, operator, authoritative, schedule) ==
    [sort_order |-> sortOrder, operator |-> operator,
     authoritative |-> authoritative, reset_schedule |-> schedule,
     is_tournament |-> FALSE, end_time |-> 0]

Definitions ==
    { Definition(LeaderboardSortOrderAscending, LeaderboardOperatorBest, FALSE, Nil),
      Definition(LeaderboardSortOrderDescending, LeaderboardOperatorIncrement, TRUE, Nil),
      Definition(LeaderboardSortOrderAscending, LeaderboardOperatorDecrement, TRUE, <<ResetPeriod>>),
      Definition(LeaderboardSortOrderDescending, LeaderboardOperatorSet, FALSE, <<ResetPeriod>>) }

\* leaderboardCache.Get(id) # nil
CacheHas(id) == id \in DOMAIN leaderboards

\* resetSchedule.Next(t): the first reset instant strictly after t.
ScheduleNext(schedule, t) == ((t \div schedule[1]) + 1) * schedule[1]

\* ------------------------------------------------------------ the store

Key(leaderboardId, ownerID, expiryTime) ==
    [leaderboard_id |-> leaderboardId, owner_id |-> ownerID, expiry_time |-> expiryTime]

KeyOf(row) == Key(row.leaderboard_id, row.owner_id, row.expiry_time)

\* SELECT ... WHERE leaderboard_id = $1 AND owner_id = $2 AND expiry_time = $3
SelectRow(st, leaderboardId, ownerID, expiryTime) ==
    { r \in st : KeyOf(r) = Key(leaderboardId, ownerID, expiryTime) }

Min2(a, b) == IF a < b THEN a ELSE b
Max2(a, b) == IF a > b THEN a ELSE b

\* COALESCE(param, old)
Coalesce(param, old) == IF param # Nil THEN param ELSE old

\* A string parameter of a write: "" is passed as NULL.
NullIfEmpty(s) == IF s = "" THEN Nil ELSE <<s>>

\* The override names no operator.
NoOperator == "none"

\* The operator a write applies: the leaderboard's, or the override.
EffectiveOperator(leaderboard, overrideOperator) ==
    CASE overrideOperator = Operator_NO_OVERRIDE -> leaderboard.operator
      [] overrideOperator = Operator_INCREMENT -> LeaderboardOperatorIncrement
      [] overrideOperator = Operator_SET -> LeaderboardOperatorSet
      [] overrideOperator = Operator_BEST -> LeaderboardOperatorBest
      [] overrideOperator = Operator_DECREMENT -> LeaderboardOperatorDecrement
      [] OTHER -> NoOperator

\* scoreAbs with 0 under every operator.
scoreAbsZero(operator, score) == 0

\* $4 and $5, the values of an inserted row.
scoreAbs(operator, score) ==
    IF operator = LeaderboardOperatorDecrement THEN 0 ELSE score

\* opSQL with the increment taking its delta as the new value.
opSQLAbsolute(operator, sortOrder, old, score, subscore) ==
    CASE operator = LeaderboardOperatorDecrement ->
            <<Max2(old.score - score, 0), Max2(old.subscore - subscore, 0)>>
      [] operator \in {LeaderboardOperatorIncrement, LeaderboardOperatorSet} ->
            <<score, subscore>>
      [] OTHER ->
            IF sortOrder = LeaderboardSortOrderAscending
            THEN <<Min2(old.score, score), Min2(old.subscore, subscore)>>
            ELSE <<Max2(old.score, score), Max2(old.subscore, subscore)>>

\* opSQL with LEAST and GREATEST exchanged in the best operator.
opSQLExchanged(operator, sortOrder, old, score, subscore) ==
    CASE operator = LeaderboardOperatorIncrement ->
            <<old.score + score, old.subscore + subscore>>
      [] operator = LeaderboardOperatorDecrement ->
            <<Max2(old.score - score, 0), Max2(old.subscore - subscore, 0)>>
      [] operator = LeaderboardOperatorSet ->
            <<score, subscore>>
      [] OTHER ->
            IF sortOrder = LeaderboardSortOrderAscending
            THEN <<Max2(old.score, score), Max2(old.subscore, subscore)>>
            ELSE <<Min2(old.score, score), Min2(old.subscore, subscore)>>

\* The SET clause of the upsert on the conflicting row `old`: <<score, subscore>>.
opSQL(operator, sortOrder, old, score, subscore) ==
    CASE operator = LeaderboardOperatorIncrement ->
            <<old.score + score, old.subscore + subscore>>
      [] operator = LeaderboardOperatorDecrement ->
            <<Max2(old.score - score, 0), Max2(old.subscore - subscore, 0)>>
      [] operator = LeaderboardOperatorSet ->
            <<score, subscore>>
      [] OTHER ->
            IF sortOrder = LeaderboardSortOrderAscending
            THEN <<Min2(old.score, score), Min2(old.subscore, subscore)>>
            ELSE <<Max2(old.score, score), Max2(old.subscore, subscore)>>

\* filterSQL with a WHERE clause no row passes: no conflicting write updates.
filterSQLNever(operator, sortOrder, old, score, subscore) == FALSE

\* filterSQL without the WHERE clause: every conflicting write updates.
filterSQLAbsent(operator, sortOrder, old, score, subscore) == TRUE

\* The WHERE clause of the upsert's DO UPDATE.
filterSQL(operator, sortOrder, old, score, subscore) ==
    CASE operator = LeaderboardOperatorIncrement -> score # 0 \/ subscore # 0
      [] operator = LeaderboardOperatorDecrement -> score # 0 \/ subscore # 0
      [] operator = LeaderboardOperatorSet ->
            old.score # score \/ old.subscore # subscore
      [] OTHER ->
            IF sortOrder = LeaderboardSortOrderAscending
            THEN old.score > score \/ old.subscore > subscore
            ELSE old.score < score \/ old.subscore < subscore

\* The arithmetic of the SET clause leaves BIGINT: the statement fails.
OutOfRange(operator, old, score, subscore) ==
    CASE operator = LeaderboardOperatorIncrement ->
            \/ old.score + score \notin Int64
            \/ old.subscore + subscore \notin Int64
      [] operator = LeaderboardOperatorDecrement ->
            \/ old.score - score \notin Int64
            \/ old.subscore - subscore \notin Int64
      [] OTHER -> FALSE

\* Upsert with the update counted before its arithmetic fails: the failed
\* statement leaves num_score one higher.
UpsertPartial(st, leaderboardId, ownerID, username, score, subscore, metadata, expiryTime, operator, sortOrder) ==
    LET existing == SelectRow(st, leaderboardId, ownerID, expiryTime)
        old == CHOOSE r \in existing : TRUE
        inserted ==
            [leaderboard_id |-> leaderboardId, owner_id |-> ownerID,
             expiry_time |-> expiryTime,
             username |-> NullIfEmpty(username),
             score |-> scoreAbs(operator, score),
             subscore |-> scoreAbs(operator, subscore),
             num_score |-> DefaultNumScore,
             metadata |-> Coalesce(NullIfEmpty(metadata), <<EmptyJSON>>)]
        set == opSQL(operator, sortOrder, old, score, subscore)
        counted == [old EXCEPT !.num_score = old.num_score + 1]
        updated ==
            [counted EXCEPT !.score = set[1], !.subscore = set[2],
                            !.metadata = Coalesce(NullIfEmpty(metadata), old.metadata),
                            !.username = Coalesce(NullIfEmpty(username), old.username)]
    IN  IF existing = {}
        THEN [store |-> st \cup {inserted}, rows |-> <<inserted>>, err |-> ErrNone]
        ELSE IF ~filterSQL(operator, sortOrder, old, score, subscore)
        THEN [store |-> st, rows |-> <<>>, err |-> ErrNone]
        ELSE IF OutOfRange(operator, old, score, subscore)
        THEN [store |-> (st \ {old}) \cup {counted}, rows |-> <<>>, err |-> ErrStore]
        ELSE [store |-> (st \ {old}) \cup {updated}, rows |-> <<updated>>, err |-> ErrNone]

\* INSERT ... ON CONFLICT (owner_id, leaderboard_id, expiry_time) DO UPDATE
\* SET ... WHERE ... RETURNING ...: the store after it, the rows it returns
\* and its error.
Upsert(st, leaderboardId, ownerID, username, score, subscore, metadata, expiryTime, operator, sortOrder) ==
    LET existing == SelectRow(st, leaderboardId, ownerID, expiryTime)
        old == CHOOSE r \in existing : TRUE
        inserted ==
            [leaderboard_id |-> leaderboardId, owner_id |-> ownerID,
             expiry_time |-> expiryTime,
             username |-> NullIfEmpty(username),
             score |-> scoreAbs(operator, score),
             subscore |-> scoreAbs(operator, subscore),
             num_score |-> DefaultNumScore,
             metadata |-> Coalesce(NullIfEmpty(metadata), <<EmptyJSON>>)]
        set == opSQL(operator, sortOrder, old, score, subscore)
        updated ==
            [old EXCEPT !.score = set[1], !.subscore = set[2],
                        !.num_score = old.num_score + 1,
                        !.metadata = Coalesce(NullIfEmpty(metadata), old.metadata),
                        !.username = Coalesce(NullIfEmpty(username), old.username)]
    IN  IF existing = {}
        THEN [store |-> st \cup {inserted}, rows |-> <<inserted>>, err |-> ErrNone]
        ELSE IF ~filterSQL(operator, sortOrder, old, score, subscore)
        THEN [store |-> st, rows |-> <<>>, err |-> ErrNone]
        ELSE IF OutOfRange(operator, old, score, subscore)
        THEN [store |-> st, rows |-> <<>>, err |-> ErrStore]
        ELSE [store |-> (st \ {old}) \cup {updated}, rows |-> <<updated>>, err |-> ErrNone]

\* ------------------------------------------------------- the rank index

\* The order of listing and ranking: lexicographic on (score, subscore,
\* owner_id).  KeyLess is the row comparison (score, subscore, owner_id) <
\* (score, subscore, owner_id) of the store.
KeyLess(a, b) ==
    \/ a.score < b.score
    \/ a.score = b.score /\ a.subscore < b.subscore
    \/ a.score = b.score /\ a.subscore = b.subscore /\ a.owner_id < b.owner_id

\* a ranks before b under the sort order.
RanksBefore(a, b, sortOrder) ==
    IF sortOrder = LeaderboardSortOrderAscending THEN KeyLess(a, b) ELSE KeyLess(b, a)

RankEntries(rc, leaderboardId, expiryTime) ==
    { e \in rc : e.leaderboard_id = leaderboardId /\ e.expiry_time = expiryTime }

\* rankCache.Get: the 1-based rank of the owner, 0 when unknown.
RankGet(rc, leaderboardId, expiryTime, ownerID) ==
    LET board == RankEntries(rc, leaderboardId, expiryTime)
        mine == { e \in board : e.owner_id = ownerID }
        me == CHOOSE e \in mine : TRUE
    IN  IF mine = {} THEN 0
        ELSE 1 + Cardinality({ e \in board : RanksBefore(e, me, me.sort_order) })

\* rankCache.Insert: the index with the owner's entry replaced.
RankInsert(rc, leaderboardId, expiryTime, sortOrder, ownerID, score, subscore) ==
    { e \in rc : ~(e.leaderboard_id = leaderboardId /\ e.expiry_time = expiryTime
                   /\ e.owner_id = ownerID) }
    \cup {[leaderboard_id |-> leaderboardId, expiry_time |-> expiryTime,
           sort_order |-> sortOrder, owner_id |-> ownerID,
           score |-> score, subscore |-> subscore]}

\* rankCache.Delete
RankDelete(rc, leaderboardId, expiryTime, ownerID) ==
    { e \in rc : ~(e.leaderboard_id = leaderboardId /\ e.expiry_time = expiryTime
                   /\ e.owner_id = ownerID) }

\* rankCache.Fill: each record with its rank set from the index.
RankFill(rc, leaderboardId, expiryTime, records) ==
    [i \in 1 .. Len(records) |->
        [records[i] EXCEPT !.rank = RankGet(rc, leaderboardId, expiryTime, records[i].owner_id)]]

\* ------------------------------------------------------------ responses

\* An api.LeaderboardRecord built from a row.
Record(row, rank) ==
    [leaderboard_id |-> row.leaderboard_id, owner_id |-> row.owner_id,
     username |-> row.username, score |-> row.score, subscore |-> row.subscore,
     num_score |-> row.num_score, metadata |-> row.metadata,
     expiry_time |-> row.expiry_time, rank |-> rank]

\* What a request returned.  req is the request of a list or haystack call;
\* info is <<effective operator, rank index call>> of a write.
Response(op, err, records, ownerRecords, nextCursor, prevCursor, req, info) ==
    [op |-> op, err |-> err, records |-> records, owner_records |-> ownerRecords,
     next_cursor |-> nextCursor, prev_cursor |-> prevCursor, req |-> req, info |-> info]

Failure(op, err, req) == Response(op, err, <<>>, <<>>, <<>>, <<>>, req, <<>>)

NoResponse == Failure("none", ErrNone, <<>>)

\* No write is in flight.
NoProcs == <<>>

\* ------------------------------------------------------------ the writer

\* The expiry a write or a delete binds to: the next reset, or 0.
WriteExpiry(leaderboard, t) ==
    IF leaderboard.reset_schedule # Nil
    THEN ScheduleNext(leaderboard.reset_schedule, t) ELSE 0

\* Refused with the gate left open.
RefusedNever(leaderboard, caller) == FALSE

\* The authoritative gate: a player may not write to an authoritative leaderboard.
Refused(leaderboard, caller) == leaderboard.authoritative /\ caller # UuidNil

\* The write after its checks: the upsert, the follow-up read when it
\* returned no row, and the rank index call.
WriteStore(st, rc, leaderboard, leaderboardId, ownerID, username, score, subscore, metadata, expiryTime, operator) ==
    LET up == Upsert(st, leaderboardId, ownerID, username, score, subscore, metadata, expiryTime, operator, leaderboard.sort_order)
        unchanged == up.err = ErrNone /\ up.rows = <<>>
        read == SelectRow(up.store, leaderboardId, ownerID, expiryTime)
        row == IF unchanged THEN CHOOSE r \in read : TRUE ELSE up.rows[1]
        rc2 == IF unchanged THEN rc
               ELSE RankInsert(rc, leaderboardId, expiryTime, leaderboard.sort_order, ownerID, row.score, row.subscore)
        rank == RankGet(rc2, leaderboardId, expiryTime, ownerID)
    IN  IF up.err # ErrNone
        THEN [store |-> up.store, rankCache |-> rc, resp |-> Failure("write", up.err, <<>>)]
        ELSE IF unchanged /\ read = {}
        THEN [store |-> up.store, rankCache |-> rc, resp |-> Failure("write", ErrNoRows, <<>>)]
        ELSE [store |-> up.store, rankCache |-> rc2,
              resp |-> Response("write", ErrNone, <<Record(row, rank)>>, <<>>, <<>>, <<>>, <<>>,
                                <<operator, IF unchanged THEN "get" ELSE "insert">>)]

\* LeaderboardRecordWrite: the store, the rank index and the response after it.
LeaderboardRecordWrite(st, rc, t, caller, leaderboardId, ownerID, username, score, subscore, metadata, overrideOperator) ==
    LET leaderboard == leaderboards[leaderboardId]
        expiryTime == WriteExpiry(leaderboard, t)
        operator == EffectiveOperator(leaderboard, overrideOperator)
        same(err) == [store |-> st, rankCache |-> rc, resp |-> Failure("write", err, <<>>)]
    IN  IF ~CacheHas(leaderboardId) THEN same(ErrLeaderboardNotFound)
        ELSE IF Refused(leaderboard, caller) THEN same(ErrLeaderboardAuthoritative)
        ELSE IF operator = NoOperator THEN same(ErrInvalidOperator)
        ELSE WriteStore(st, rc, leaderboard, leaderboardId, ownerID, username, score, subscore, metadata, expiryTime, operator)

\* LeaderboardRecordDelete
LeaderboardRecordDelete(st, rc, t, caller, leaderboardId, ownerID) ==
    LET leaderboard == leaderboards[leaderboardId]
        expiryTime == WriteExpiry(leaderboard, t)
        same(err) == [store |-> st, rankCache |-> rc, resp |-> Failure("delete", err, <<>>)]
    IN  IF ~CacheHas(leaderboardId) THEN same(ErrLeaderboardNotFound)
        ELSE IF Refused(leaderboard, caller) THEN same(ErrLeaderboardAuthoritative)
        ELSE [store |-> st \ SelectRow(st, leaderboardId, ownerID, expiryTime),
              rankCache |-> RankDelete(rc, leaderboardId, expiryTime, ownerID),
              resp |-> Failure("delete", ErrNone, <<>>)]

\* LeaderboardRecordsDeleteAll: DELETE FROM leaderboard_record WHERE owner_id = $1
LeaderboardRecordsDeleteAll(st, userID) ==
    { r \in st : r.owner_id # userID }

\* ------------------------------------------------------- the cursor codec

\* leaderboardRecordListCursor
Cursor(isNext, leaderboardId, expiryTime, score, subscore, ownerId, rank) ==
    [IsNext |-> isNext, LeaderboardId |-> leaderboardId, ExpiryTime |-> expiryTime,
     Score |-> score, Subscore |-> subscore, OwnerId |-> ownerId, Rank |-> rank]

\* The token of a cursor: gob writes the fields in the order of the struct.
marshalLeaderboardRecordsListCursor(cursor) ==
    <<cursor.IsNext, cursor.LeaderboardId, cursor.ExpiryTime, cursor.Score,
      cursor.Subscore, cursor.OwnerId, cursor.Rank>>

\* A token that is not base64, or not the gob of a cursor.
MalformedCursor == <<"malformed">>

\* The decoder without its two binding checks.
unmarshalUnbound(leaderboardId, expiryTime, cursor) ==
    IF cursor = <<>> THEN [err |-> ErrNone, cursor |-> Nil]
    ELSE IF Len(cursor) # 7 THEN [err |-> ErrLeaderboardInvalidCursor, cursor |-> Nil]
    ELSE [err |-> ErrNone,
          cursor |-> <<Cursor(cursor[1], cursor[2], cursor[3], cursor[4], cursor[5], cursor[6], cursor[7])>>]

\* The cursor a token decodes to (Nil for the empty token), or the error.
unmarshalLeaderboardRecordsListCursor(leaderboardId, expiryTime, cursor) ==
    IF cursor = <<>> THEN [err |-> ErrNone, cursor |-> Nil]
    ELSE IF Len(cursor) # 7 THEN [err |-> ErrLeaderboardInvalidCursor, cursor |-> Nil]
    ELSE LET incomingCursor == Cursor(cursor[1], cursor[2], cursor[3], cursor[4], cursor[5], cursor[6], cursor[7])
         IN  IF leaderboardId # incomingCursor.LeaderboardId
             THEN [err |-> ErrLeaderboardInvalidCursor, cursor |-> Nil]
             ELSE IF expiryTime # incomingCursor.ExpiryTime
             THEN [err |-> ErrLeaderboardInvalidCursor, cursor |-> Nil]
             ELSE [err |-> ErrNone, cursor |-> <<incomingCursor>>]

\* ------------------------------------------------------------ the expiry

\* The expiry of calculateTournamentDeadlines: the end of the tournament.
TournamentExpiry(leaderboard, t) == leaderboard.end_time

\* calculateExpiryOverride with the check of the tournament's end applied
\* to every request, with or without an override.
calculateExpiryOverrideChecked(overrideExpiry, leaderboard, t) ==
    IF leaderboard.is_tournament
    THEN LET expiryTime == TournamentExpiry(leaderboard, t)
         IN  IF expiryTime # 0 /\ expiryTime <= t THEN <<0, FALSE>>
             ELSE <<IF overrideExpiry = 0 THEN expiryTime ELSE overrideExpiry, TRUE>>
    ELSE IF overrideExpiry = 0 /\ leaderboard.reset_schedule # Nil
    THEN <<ScheduleNext(leaderboard.reset_schedule, t), TRUE>>
    ELSE <<overrideExpiry, TRUE>>

\* calculateExpiryOverride with the override of a resetting leaderboard ignored.
calculateExpiryOverrideIgnored(overrideExpiry, leaderboard, t) ==
    IF leaderboard.reset_schedule # Nil
    THEN <<ScheduleNext(leaderboard.reset_schedule, t), TRUE>>
    ELSE <<overrideExpiry, TRUE>>

\* calculateExpiryOverride: <<expiry, records possible>>.
calculateExpiryOverride(overrideExpiry, leaderboard, t) ==
    IF overrideExpiry = 0 /\ leaderboard.is_tournament
    THEN LET expiryTime == TournamentExpiry(leaderboard, t)
         IN  IF expiryTime # 0 /\ expiryTime <= t THEN <<0, FALSE>> ELSE <<expiryTime, TRUE>>
    ELSE IF overrideExpiry = 0 /\ leaderboard.reset_schedule # Nil
    THEN <<ScheduleNext(leaderboard.reset_schedule, t), TRUE>>
    ELSE <<overrideExpiry, TRUE>>

\* ------------------------------------------------------------ the lister

\* The rows of one leaderboard period.
Board(st, leaderboardId, expiryTime) ==
    { r \in st : r.leaderboard_id = leaderboardId /\ r.expiry_time = expiryTime }

\* ORDER BY score, subscore, owner_id: ASC when up, DESC otherwise.
RECURSIVE OrderBy(_, _)
OrderBy(rows, up) ==
    IF rows = {} THEN <<>>
    ELSE LET first == CHOOSE r \in rows : \A o \in rows \ {r} :
                          IF up THEN KeyLess(r, o) ELSE KeyLess(o, r)
         IN  <<first>> \o OrderBy(rows \ {first}, up)

\* LIMIT n
Limit(rows, n) == SubSeq(rows, 1, Min2(Len(rows), n))

\* The (score, subscore, owner_id) a cursor carries.
CursorKey(c) == [score |-> c.Score, subscore |-> c.Subscore, owner_id |-> c.OwnerId]

\* The page query: the rows it returns, in its order.
PageQuery(st, leaderboardId, expiryTime, sortOrder, incomingCursor, limitNumber) ==
    LET board == Board(st, leaderboardId, expiryTime)
        asc == sortOrder = LeaderboardSortOrderAscending
    IN  IF incomingCursor = Nil
        THEN Limit(OrderBy(board, asc), limitNumber + 1)
        ELSE IF (asc /\ incomingCursor[1].IsNext) \/ (~asc /\ ~incomingCursor[1].IsNext)
        THEN Limit(OrderBy({ r \in board : KeyLess(CursorKey(incomingCursor[1]), r) }, TRUE), limitNumber + 1)
        ELSE Limit(OrderBy({ r \in board : KeyLess(r, CursorKey(incomingCursor[1])) }, FALSE), limitNumber + 1)

\* The variables the scan writes, before the first row is scanned.
ZeroRow == [score |-> 0, subscore |-> 0, owner_id |-> UuidNil]

\* The request is for a previous page.
Backward(incomingCursor) == incomingCursor # Nil /\ ~incomingCursor[1].IsNext

\* The loop over the rows of the page query, from row i on.  q is the
\* request, acc the records, the rank and the two cursors so far.  The
\* cursor set when the page is full is keyed on the row scanned last, and
\* the loop goes on to scan and append the row at hand.
RECURSIVE ScanRows(_, _, _, _)
ScanRows(rows, i, q, acc) ==
    IF i > Len(rows) THEN acc
    ELSE LET db == IF i = 1 THEN ZeroRow ELSE rows[i - 1]
             nextCursor ==
                 IF Len(acc.records) >= q.limitNumber
                 THEN <<Cursor(TRUE, q.leaderboardId, q.expiryTime, db.score, db.subscore, db.owner_id, acc.rank)>>
                 ELSE acc.nextCursor
             rank == IF Backward(q.incomingCursor) THEN acc.rank - 1 ELSE acc.rank + 1
             prevCursor ==
                 IF q.incomingCursor # Nil /\ acc.prevCursor = Nil
                 THEN <<Cursor(FALSE, q.leaderboardId, q.expiryTime, rows[i].score, rows[i].subscore, rows[i].owner_id, rank)>>
                 ELSE acc.prevCursor
         IN  ScanRows(rows, i + 1, q,
                      [records |-> Append(acc.records, Record(rows[i], rank)), rank |-> rank,
                       nextCursor |-> nextCursor, prevCursor |-> prevCursor])

\* The tuple assignment that swaps the cursors of a previous page: each name
\* takes the other cursor, and IsNext and Rank stay with the name.
SwapCursors(nextCursor, prevCursor) ==
    IF nextCursor # Nil /\ prevCursor # Nil
    THEN [nextCursor |-> <<[prevCursor[1] EXCEPT !.IsNext = nextCursor[1].IsNext, !.Rank = nextCursor[1].Rank]>>,
          prevCursor |-> <<[nextCursor[1] EXCEPT !.IsNext = prevCursor[1].IsNext, !.Rank = prevCursor[1].Rank]>>]
    ELSE IF nextCursor # Nil
    THEN [nextCursor |-> Nil, prevCursor |-> <<[nextCursor[1] EXCEPT !.IsNext = ~nextCursor[1].IsNext]>>]
    ELSE IF prevCursor # Nil
    THEN [nextCursor |-> <<[prevCursor[1] EXCEPT !.IsNext = ~prevCursor[1].IsNext]>>, prevCursor |-> Nil]
    ELSE [nextCursor |-> Nil, prevCursor |-> Nil]

\* FlipRecords with the records left in the order of the query.
FlipRecordsNone(records) == records

\* The tuple assignment that flips the records of a previous page: the
\* records change places, and each takes the rank of the place it moves to.
FlipRecords(records) ==
    [k \in 1 .. Len(records) |->
        [records[Len(records) + 1 - k] EXCEPT !.rank = records[k].rank]]

\* The cursor as the response carries it: "" for nil.
CursorStr(cursor) ==
    IF cursor = Nil THEN <<>> ELSE marshalLeaderboardRecordsListCursor(cursor[1])

\* The records of the owners a list request names, ranks filled from the
\* index.  The query has no ORDER BY; the requests made here name at most
\* one owner, so the order of its rows is not at stake.
OwnerRecords(st, rc, leaderboardId, expiryTime, ownerIds) ==
    LET rows == OrderBy({ r \in Board(st, leaderboardId, expiryTime) : r.owner_id \in ownerIds }, TRUE)
    IN  RankFill(rc, leaderboardId, expiryTime, [i \in 1 .. Len(rows) |-> Record(rows[i], 0)])

\* The page of a list request with a limit: the query, the scan and, for a
\* previous page, the swap of the cursors and the flip of the records.
ListPage(st, leaderboardId, expiryTime, sortOrder, limitNumber, incomingCursor) ==
    LET rows == PageQuery(st, leaderboardId, expiryTime, sortOrder, incomingCursor, limitNumber)
        q == [leaderboardId |-> leaderboardId, expiryTime |-> expiryTime,
              limitNumber |-> limitNumber, incomingCursor |-> incomingCursor]
        rank == IF incomingCursor # Nil THEN incomingCursor[1].Rank ELSE 0
        scan == ScanRows(rows, 1, q, [records |-> <<>>, rank |-> rank, nextCursor |-> Nil, prevCursor |-> Nil])
        swapped == SwapCursors(scan.nextCursor, scan.prevCursor)
    IN  IF Backward(incomingCursor)
        THEN [records |-> FlipRecords(scan.records),
              nextCursor |-> swapped.nextCursor, prevCursor |-> swapped.prevCursor]
        ELSE [records |-> scan.records,
              nextCursor |-> scan.nextCursor, prevCursor |-> scan.prevCursor]

\* LeaderboardRecordsList: the response.  limit is Nil or <<number>>.
LeaderboardRecordsList(st, rc, t, leaderboardId, limit, cursor, ownerIds, overrideExpiry) ==
    LET req == <<leaderboardId, limit, cursor, ownerIds, overrideExpiry>>
        leaderboard == leaderboards[leaderboardId]
        expiry == calculateExpiryOverride(overrideExpiry, leaderboard, t)
        expiryTime == expiry[1]
        decoded == unmarshalLeaderboardRecordsListCursor(leaderboardId, expiryTime, cursor)
        page == IF limit # Nil
                THEN ListPage(st, leaderboardId, expiryTime, leaderboard.sort_order, limit[1], decoded.cursor)
                ELSE [records |-> <<>>, nextCursor |-> Nil, prevCursor |-> Nil]
    IN  IF ~CacheHas(leaderboardId) THEN Failure("list", ErrLeaderboardNotFound, req)
        ELSE IF ~expiry[2] THEN Failure("list", ErrNone, req)
        ELSE IF limit # Nil /\ decoded.err # ErrNone THEN Failure("list", decoded.err, req)
        ELSE Response("list", ErrNone, page.records,
                      OwnerRecords(st, rc, leaderboardId, expiryTime, ownerIds),
                      CursorStr(page.nextCursor), CursorStr(page.prevCursor), req, <<expiryTime>>)

\* -------------------------------------------------------- the haystack

\* A slice in the opposite order.
Reverse(s) == [k \in 1 .. Len(s) |-> s[Len(s) + 1 - k]]

\* A slice without its last element.
DropLast(s) == SubSeq(s, 1, Len(s) - 1)

\* The start of the window, computed without looking at the first half.
WindowStartTail(numRecords, numFirst, limit) == Max2(numRecords - limit, 0)

\* The start of the window over first half, owner, second half (0-based).
WindowStart(numRecords, numFirst, limit) ==
    IF numRecords - limit < 0 \/ numFirst < limit \div 2 THEN 0 ELSE numRecords - limit

\* The first half: the rows that rank before the owner's, from the owner outward.
FirstQuery(board, asc, ownerRow, limit) ==
    IF asc THEN Limit(OrderBy({ r \in board : KeyLess(r, ownerRow) }, FALSE), limit + 1)
           ELSE Limit(OrderBy({ r \in board : KeyLess(ownerRow, r) }, TRUE), limit + 1)

\* The second half: the rows that rank after the owner's, from the owner outward.
SecondQuery(board, asc, ownerRow, secondLimit) ==
    IF asc THEN Limit(OrderBy({ r \in board : KeyLess(ownerRow, r) }, TRUE), secondLimit + 1)
           ELSE Limit(OrderBy({ r \in board : KeyLess(r, ownerRow) }, FALSE), secondLimit + 1)

\* The rows of a half without the row fetched beyond its limit.
WithoutOverflow(rows, limit) == IF Len(rows) > limit THEN DropLast(rows) ELSE rows

\* SecondLimit without the extension below a short first half.
SecondLimitHalf(numFirst, limit) == limit \div 2

\* The limit of the second half, given the length of the first.
SecondLimit(numFirst, limit) ==
    IF numFirst < limit \div 2 THEN limit - numFirst ELSE limit \div 2

\* The window of at most limit records over first half, owner, second
\* half, ranks filled from the index.
HaystackWindow(rc, leaderboardId, expiryTime, limit, firstRecords, ownerRow, secondRecords) ==
    LET all == firstRecords \o <<ownerRow>> \o secondRecords
        start == WindowStart(Len(all), Len(firstRecords), limit)
        end == Min2(start + limit, Len(all))
    IN  RankFill(rc, leaderboardId, expiryTime,
                 [i \in 1 .. (end - start) |-> Record(all[start + i], 0)])

\* HaystackCursor with the direction of the cursor inverted.
HaystackCursorInverted(isNext, record, expiryTime) ==
    marshalLeaderboardRecordsListCursor(
        Cursor(~isNext, record.leaderboard_id, expiryTime, record.score,
               record.subscore, record.owner_id, record.rank))

\* The cursor of a haystack page, keyed on one of its records.
HaystackCursor(isNext, record, expiryTime) ==
    marshalLeaderboardRecordsListCursor(
        Cursor(isNext, record.leaderboard_id, expiryTime, record.score,
               record.subscore, record.owner_id, record.rank))

\* The haystack page of the window and its cursors.
HaystackPage(records, expiryTime, setNextCursor, setPrevCursor) ==
    Response("haystack", ErrNone, records, <<>>,
             IF setNextCursor THEN HaystackCursor(FALSE, records[1], expiryTime) ELSE <<>>,
             IF setPrevCursor THEN HaystackCursor(TRUE, records[Len(records)], expiryTime) ELSE <<>>,
             <<>>, <<expiryTime>>)

\* The haystack around the row of the owner, for a limit above 1.
HaystackAround(st, rc, limit, leaderboardId, sortOrder, expiryTime, ownerRow) ==
    LET board == Board(st, leaderboardId, expiryTime)
        asc == sortOrder = LeaderboardSortOrderAscending
        firstRows == FirstQuery(board, asc, ownerRow, limit)
        firstRecords == Reverse(WithoutOverflow(firstRows, limit))
        secondLimit == SecondLimit(Len(firstRecords), limit)
        secondRows == SecondQuery(board, asc, ownerRow, secondLimit)
    IN  HaystackPage(HaystackWindow(rc, leaderboardId, expiryTime, limit, firstRecords, ownerRow,
                                    WithoutOverflow(secondRows, secondLimit)),
                     expiryTime, Len(firstRows) > limit, Len(secondRows) > secondLimit)

\* getLeaderboardRecordsHaystack: the response, its request left blank.
getLeaderboardRecordsHaystack(st, rc, t, ownerID, limit, leaderboardId, cursor, sortOrder, expiryTime) ==
    LET found == SelectRow(st, leaderboardId, ownerID, expiryTime)
    IN  IF cursor # <<>>
        THEN LeaderboardRecordsList(st, rc, t, leaderboardId, <<limit>>, cursor, {}, expiryTime)
        ELSE IF found = {} THEN Failure("haystack", ErrNone, <<>>)
        ELSE IF limit = 1
        THEN Response("haystack", ErrNone,
                      <<Record(CHOOSE r \in found : TRUE, RankGet(rc, leaderboardId, expiryTime, ownerID))>>,
                      <<>>, <<>>, <<>>, <<>>, <<expiryTime>>)
        ELSE HaystackAround(st, rc, limit, leaderboardId, sortOrder, expiryTime, CHOOSE r \in found : TRUE)

\* LeaderboardRecordsHaystack: the response.
LeaderboardRecordsHaystack(st, rc, t, leaderboardId, cursor, ownerID, limit, overrideExpiry) ==
    LET req == <<leaderboardId, <<limit>>, cursor, ownerID, overrideExpiry>>
        leaderboard == leaderboards[leaderboardId]
        expiry == calculateExpiryOverride(overrideExpiry, leaderboard, t)
        out == getLeaderboardRecordsHaystack(st, rc, t, ownerID, limit, leaderboardId, cursor, leaderboard.sort_order, expiry[1])
    IN  IF ~CacheHas(leaderboardId) THEN Failure("haystack", ErrLeaderboardNotFound, req)
        ELSE IF ~expiry[2] THEN Failure("haystack", ErrNone, req)
        ELSE [out EXCEPT !.op = "haystack", !.req = req]

\* -------------------------------------------------------------- actions

Write(caller, leaderboardId, ownerID, username, score, subscore, metadata, overrideOperator) ==
    LET out == LeaderboardRecordWrite(store, rankCache, now, caller, leaderboardId, ownerID, username, score, subscore, metadata, overrideOperator)
    IN  /\ \A r \in out.store : r.num_score <= MaxNumScore
        /\ store' = out.store
        /\ rankCache' = out.rankCache
        /\ resp' = out.resp
        /\ UNCHANGED <<leaderboards, now, procs>>

Delete(caller, leaderboardId, ownerID) ==
    LET out == LeaderboardRecordDelete(store, rankCache, now, caller, leaderboardId, ownerID)
    IN  /\ store' = out.store
        /\ rankCache' = out.rankCache
        /\ resp' = out.resp
        /\ UNCHANGED <<leaderboards, now, procs>>

DeleteAll(userID) ==
    /\ store' = LeaderboardRecordsDeleteAll(store, userID)
    /\ resp' = Failure("delete_all", ErrNone, <<>>)
    /\ UNCHANGED <<leaderboards, rankCache, now, procs>>

List(leaderboardId, limit, cursor, ownerIds, overrideExpiry) ==
    /\ resp' = LeaderboardRecordsList(store, rankCache, now, leaderboardId, limit, cursor, ownerIds, overrideExpiry)
    /\ UNCHANGED <<leaderboards, store, rankCache, now, procs>>

Haystack(leaderboardId, cursor, ownerID, limit, overrideExpiry) ==
    /\ resp' = LeaderboardRecordsHaystack(store, rankCache, now, leaderboardId, cursor, ownerID, limit, overrideExpiry)
    /\ UNCHANGED <<leaderboards, store, rankCache, now, procs>>

\* Time passes.  Only the reset schedules read the clock.
Tick ==
    /\ now < MaxNow
    /\ \E id \in DOMAIN leaderboards : leaderboards[id].reset_schedule # Nil
    /\ now' = now + 1
    /\ UNCHANGED <<leaderboards, store, rankCache, resp, procs>>

\* ------------------------------------------------ the write state machine

\* Ids a request may name: the cached ones and one the cache does not hold.
RequestIds == DOMAIN leaderboards \cup {"missing"}

Overrides ==
    {Operator_NO_OVERRIDE, Operator_BEST, Operator_SET, Operator_INCREMENT, Operator_DECREMENT}

Init ==
    /\ leaderboards \in { [id \in {"lb1"} |-> d] : d \in Definitions }
    /\ store = {}
    /\ rankCache = {}
    /\ now = 0
    /\ resp = NoResponse
    /\ procs = NoProcs

\* A write of the server, a write of a player, the requests that fail before
\* the store, a delete, and the clock.
Next ==
    \/ \E owner \in Owners, score \in Int64, subscore \in Int64, op \in Overrides :
          Write(UuidNil, "lb1", owner, "", score, subscore, "", op) /\ Cardinality(store') <= MaxRows
    \/ \E owner \in Owners, score \in Int64, op \in Overrides :
          Write(owner, "lb1", owner, "", score, 0, "", op) /\ Cardinality(store') <= MaxRows
    \/ \E owner \in Owners, id \in RequestIds, op \in {Operator_NO_OVERRIDE, Operator_UNKNOWN} :
          Write(UuidNil, id, owner, "", 0, 0, "", op) /\ Cardinality(store') <= MaxRows
    \/ \E owner \in Owners, player \in BOOLEAN, id \in RequestIds :
          Delete(IF player THEN owner ELSE UuidNil, id, owner)
    \/ Tick

Spec == Init /\ [][Next]_vars

\* ------------------------------------------ the owner-wide delete machine

\* Writes, deletes and owner-wide deletes of the server.
NextPurge ==
    \/ \E owner \in Owners, score \in {0, 1}, op \in {Operator_NO_OVERRIDE, Operator_SET} :
          Write(UuidNil, "lb1", owner, "", score, 0, "", op) /\ Cardinality(store') <= MaxRows
    \/ \E owner \in Owners : Delete(UuidNil, "lb1", owner)
    \/ \E owner \in Owners : DeleteAll(owner)
    \/ Tick

SpecPurge == Init /\ [][NextPurge]_vars

\* --------------------------------------------------- the listing machine

\* Overrides of the expiry a request carries: none, and the first reset.
ExpiryOverrides == {0, ResetPeriod}

\* (score, subscore) the owners submit to the listed leaderboard.
ListScores == {<<0, 0>>, <<0, 1>>, <<1, 0>>}

ListOwners == 1 .. NumListOwners

\* The listed leaderboard: either sort order, with and without resets.
ListDefinitions ==
    { Definition(sortOrder, LeaderboardOperatorSet, FALSE, schedule) :
        sortOrder \in {LeaderboardSortOrderAscending, LeaderboardSortOrderDescending},
        schedule \in {Nil, <<ResetPeriod>>} }

InitList ==
    /\ leaderboards \in
         { [id \in {"lb1", "lb2"} |->
               IF id = "lb1" THEN d
               ELSE Definition(LeaderboardSortOrderDescending, LeaderboardOperatorBest, FALSE, Nil)] :
           d \in ListDefinitions }
    /\ store = {}
    /\ rankCache = {}
    /\ now = 0
    /\ resp = NoResponse
    /\ procs = NoProcs

\* The last response is a page of records with its cursors.
IsPage(r) == r.op \in {"list", "haystack"} /\ r.err = ErrNone /\ r.req[2] # Nil

\* The cursor of the last response a client follows.
Followed(next) == IF next THEN resp.next_cursor ELSE resp.prev_cursor

\* The first submission of an owner to the current period.
Submit(owner, score, subscore) ==
    /\ SelectRow(store, "lb1", owner, WriteExpiry(leaderboards["lb1"], now)) = {}
    /\ Write(UuidNil, "lb1", owner, "", score, subscore, "", Operator_SET)
    /\ Cardinality(store') <= MaxListRows

\* Owners submit, before the first reset any of them and after it one; the
\* server deletes; clients ask for a first page, follow a cursor of the page
\* they hold under the same or another leaderboard, by a list or by a
\* haystack request of the same page size, ask for owner records
\* without a limit, send a token that does not decode, and ask for the
\* haystack of an owner; the clock ticks.
NextList ==
    \/ \E owner \in ListOwners, s \in ListScores : now = 0 /\ Submit(owner, s[1], s[2])
    \/ now > 0 /\ Submit(1, 0, 0)
    \/ \E owner \in ListOwners : Delete(UuidNil, "lb1", owner)
    \/ \E limit \in 1 .. MaxLimit, overrideExpiry \in ExpiryOverrides :
          List("lb1", <<limit>>, <<>>, {}, overrideExpiry)
    \/ \E id \in {"lb2", "missing"} : List(id, <<1>>, <<>>, {}, 0)
    \/ \E id \in {"lb1", "lb2"}, next \in BOOLEAN :
          /\ IsPage(resp) /\ Followed(next) # <<>>
          /\ List(id, resp.req[2], Followed(next), {}, resp.req[5])
    \/ \E id \in {"lb1", "lb2"}, next \in BOOLEAN :
          /\ IsPage(resp) /\ Followed(next) # <<>>
          /\ Haystack(id, Followed(next), 1, resp.req[2][1], resp.req[5])
    \/ \E cursor \in {<<>>, MalformedCursor} : List("lb1", Nil, cursor, {1}, 0)
    \/ \E next \in BOOLEAN :
          /\ IsPage(resp) /\ Followed(next) # <<>>
          /\ List("lb2", Nil, Followed(next), {}, 0)
    \/ List("lb1", <<1>>, MalformedCursor, {}, 0)
    \/ \E owner \in ListOwners, limit \in 1 .. MaxLimit, overrideExpiry \in ExpiryOverrides :
          Haystack("lb1", <<>>, owner, limit, overrideExpiry)
    \/ Haystack("missing", <<>>, 1, 1, 0)
    \/ Tick

SpecList == InitList /\ [][NextList]_vars

\* ------------------------------------------------------ the race machine

\* Writes of processes 1 .. NumProcs to one key interleave at the calls the
\* writer makes to the store and to the rank index: the upsert, the
\* follow-up read, the rank index call.

Procs == 1 .. NumProcs

\* The scores the racing writes submit; the subscore is 0.
RaceScores == {-1, 0, 1}

\* The owner whose key the writes race for.
RaceOwner == 1

RaceDefinitions ==
    { Definition(LeaderboardSortOrderDescending, LeaderboardOperatorIncrement, FALSE, Nil),
      Definition(LeaderboardSortOrderAscending, LeaderboardOperatorBest, FALSE, Nil),
      Definition(LeaderboardSortOrderDescending, LeaderboardOperatorSet, FALSE, Nil) }

\* A process before its call: its position, the score it submits, whether
\* the key was absent when its upsert began, why it took the follow-up read
\* ("none", "no row", "conflict"), the row it scanned, and what it returned.
IdleProc ==
    [pc |-> "idle", score |-> 0, absent |-> FALSE, fallback |-> "none",
     row |-> Nil, resp |-> NoResponse]

InitRace ==
    /\ leaderboards \in { [id \in {"lb1"} |-> d] : d \in RaceDefinitions }
    /\ store = {}
    /\ rankCache = {}
    /\ now = 0
    /\ resp = NoResponse
    /\ procs = [p \in Procs |-> IdleProc]

\* The upsert of a write submitting (score, 0) to the raced key.
RaceUpsert(st, score) ==
    Upsert(st, "lb1", RaceOwner, "", score, 0, "", WriteExpiry(leaderboards["lb1"], now),
           EffectiveOperator(leaderboards["lb1"], Operator_NO_OVERRIDE), leaderboards["lb1"].sort_order)

\* The insert of the upsert lost the race to a concurrent insert of the same
\* (score, subscore): the statement may fail on leaderboard_record_pkey.
InsertLost(st, absent, score) ==
    /\ absent
    /\ \E r \in SelectRow(st, "lb1", RaceOwner, WriteExpiry(leaderboards["lb1"], now)) :
          /\ r.score = scoreAbs(leaderboards["lb1"].operator, score)
          /\ r.subscore = 0

\* The call up to the upsert: the checks pass, the statement is sent.
WriteCall(p, score) ==
    /\ procs[p].pc = "idle"
    /\ procs' = [procs EXCEPT ![p] =
                    [IdleProc EXCEPT !.pc = "upsert", !.score = score,
                        !.absent = SelectRow(store, "lb1", RaceOwner, WriteExpiry(leaderboards["lb1"], now)) = {}]]
    /\ UNCHANGED <<leaderboards, store, rankCache, now, resp>>

\* The upsert takes effect at once and returns its row, no row, or an error
\* of the store.
WriteUpsert(p) ==
    LET up == RaceUpsert(store, procs[p].score)
    IN  /\ procs[p].pc = "upsert"
        /\ store' = up.store
        /\ procs' = [procs EXCEPT ![p] =
              IF up.err # ErrNone
              THEN [@ EXCEPT !.pc = "done", !.resp = Failure("write", up.err, <<>>)]
              ELSE IF up.rows = <<>>
              THEN [@ EXCEPT !.pc = "read", !.fallback = "no row"]
              ELSE [@ EXCEPT !.pc = "rank", !.row = up.rows]]
        /\ UNCHANGED <<leaderboards, rankCache, now, resp>>

\* The upsert fails with the unique violation on leaderboard_record_pkey.
WriteConflict(p) ==
    /\ procs[p].pc = "upsert"
    /\ InsertLost(store, procs[p].absent, procs[p].score)
    /\ procs' = [procs EXCEPT ![p] = [@ EXCEPT !.pc = "read", !.fallback = "conflict"]]
    /\ UNCHANGED <<leaderboards, store, rankCache, now, resp>>

\* The follow-up read of the key.
WriteRead(p) ==
    LET read == SelectRow(store, "lb1", RaceOwner, WriteExpiry(leaderboards["lb1"], now))
    IN  /\ procs[p].pc = "read"
        /\ procs' = [procs EXCEPT ![p] =
              IF read = {}
              THEN [@ EXCEPT !.pc = "done", !.resp = Failure("write", ErrNoRows, <<>>)]
              ELSE [@ EXCEPT !.pc = "rank", !.row = <<CHOOSE r \in read : TRUE>>]]
        /\ UNCHANGED <<leaderboards, store, rankCache, now, resp>>

\* The rank index call and the return of the record.
WriteRank(p) ==
    LET row == procs[p].row[1]
        unchanged == procs[p].fallback # "none"
        rc == IF unchanged THEN rankCache
              ELSE RankInsert(rankCache, "lb1", row.expiry_time, leaderboards["lb1"].sort_order,
                              RaceOwner, row.score, row.subscore)
    IN  /\ procs[p].pc = "rank"
        /\ rankCache' = rc
        /\ procs' = [procs EXCEPT ![p] =
              [@ EXCEPT !.pc = "done",
                        !.resp = Response("write", ErrNone,
                                          <<Record(row, RankGet(rc, "lb1", row.expiry_time, RaceOwner))>>,
                                          <<>>, <<>>, <<>>, <<>>,
                                          <<leaderboards["lb1"].operator, IF unchanged THEN "get" ELSE "insert">>)]]
        /\ UNCHANGED <<leaderboards, store, now, resp>>

NextRace ==
    \/ \E p \in Procs, score \in RaceScores : WriteCall(p, score)
    \/ \E p \in Procs : WriteUpsert(p)
    \/ \E p \in Procs : WriteConflict(p)
    \/ \E p \in Procs : WriteRead(p)
    \/ \E p \in Procs : WriteRank(p)
    \/ Delete(UuidNil, "lb1", RaceOwner)

SpecRace == InitRace /\ [][NextRace]_vars

\* ------------------------------------------------ the static-store machine

StaticOwners == 1 .. NumStaticOwners

\* The scores the owners of the static store hold (ties on the score are
\* broken by the owner id).
StaticScores == {0, 1}

\* The row of an owner written once with the score.
StaticRow(owner, score) ==
    [leaderboard_id |-> "lb1", owner_id |-> owner, expiry_time |-> 0,
     score |-> score, subscore |-> 0, username |-> Nil,
     metadata |-> <<EmptyJSON>>, num_score |-> DefaultNumScore]

\* The stores that first writes of the owners 1 .. n leave.
StaticStores ==
    UNION { { { StaticRow(o, h[o]) : o \in 1 .. n } : h \in [1 .. n -> StaticScores] } :
            n \in 0 .. NumStaticOwners }

\* The cursors followed: the rank a cursor carries is a counter, followed
\* while it is within the ranks of the store, one beyond on either side.
RankInRange(cursor) == cursor[7] \in 0 .. NumStaticOwners + 1

RECURSIVE RankInsertAll(_, _, _)
\* The rank index after the writes that left the rows.
RankInsertAll(rc, rows, sortOrder) ==
    IF rows = {} THEN rc
    ELSE LET r == CHOOSE x \in rows : TRUE
         IN  RankInsertAll(RankInsert(rc, r.leaderboard_id, r.expiry_time, sortOrder, r.owner_id, r.score, r.subscore),
                           rows \ {r}, sortOrder)

\* A leaderboard without resets, of either sort order, whose owners have
\* each written at most once.
InitStatic ==
    /\ leaderboards \in
         { [id \in {"lb1"} |-> Definition(sortOrder, LeaderboardOperatorSet, FALSE, Nil)] :
           sortOrder \in {LeaderboardSortOrderAscending, LeaderboardSortOrderDescending} }
    /\ store \in StaticStores
    /\ rankCache = RankInsertAll({}, store, leaderboards["lb1"].sort_order)
    /\ now = 0
    /\ resp = NoResponse
    /\ procs = NoProcs

\* Clients ask for the haystack of an owner, for a first page, and follow a
\* cursor of the page they hold by a list or by a haystack request of the
\* same page size; nothing writes.
NextStatic ==
    \/ \E owner \in StaticOwners, limit \in 1 .. MaxStaticLimit :
          Haystack("lb1", <<>>, owner, limit, 0)
    \/ \E limit \in 1 .. MaxStaticLimit : List("lb1", <<limit>>, <<>>, {}, 0)
    \/ \E next \in BOOLEAN :
          /\ IsPage(resp) /\ Followed(next) # <<>> /\ RankInRange(Followed(next))
          /\ List("lb1", resp.req[2], Followed(next), {}, 0)
    \/ \E next \in BOOLEAN :
          /\ IsPage(resp) /\ Followed(next) # <<>> /\ RankInRange(Followed(next))
          /\ Haystack("lb1", Followed(next), 1, resp.req[2][1], 0)

SpecStatic == InitStatic /\ [][NextStatic]_vars

\* ------------------------------------------------------ the reset machine

\* A cron expression, as far as its reset instants go: the instants t with
\* t % cycle in at.  A list of weekdays is such an expression.
CronExpr(cycle, at) == [cycle |-> cycle, at |-> at]

\* Every second instant, every third, and two instants in a row out of four.
CronExprs == { CronExpr(2, {0}), CronExpr(3, {0}), CronExpr(CronCycle, {0, 1}) }

\* Whether the expression resets at t.
IsReset(expr, t) == t % expr.cycle \in expr.at

\* resetSchedule.Next(t): the first reset instant strictly after t.
CronNext(expr, t) ==
    CHOOSE u \in t + 1 .. t + expr.cycle :
        IsReset(expr, u) /\ \A v \in t + 1 .. u - 1 : ~IsReset(expr, v)

\* resetSchedule.NextN(t, 2)
CronNextN2(expr, t) == <<CronNext(expr, t), CronNext(expr, CronNext(expr, t))>>

\* calculatePrevReset
calculatePrevReset(currentTime, startTime, resetSchedule) ==
    IF resetSchedule = Nil THEN 0
    ELSE LET nextResets == CronNextN2(resetSchedule[1], currentTime)
             t1 == nextResets[1]
             t2 == nextResets[2]
             resetPeriod == t2 - t1
             prevReset == t1 - resetPeriod
         IN  IF prevReset < startTime THEN 0 ELSE prevReset

\* uint32(x), for the instants of the model: they lie in 0 .. 2^32 - 1,
\* where the conversion keeps the value (calculatePrevReset returns 0 or an
\* instant at or after startTime >= 0).
Uint32(x) == CHOOSE u \in {x} : x >= 0

\* The api.Leaderboard of LeaderboardsGet for one id: <<>> when the id is
\* unknown or a tournament, otherwise one view.
LeaderboardView(id, t) ==
    IF ~CacheHas(id) \/ leaderboards[id].is_tournament THEN <<>>
    ELSE LET l == leaderboards[id]
             prevReset == IF l.reset_schedule # Nil
                          THEN calculatePrevReset(t, l.create_time, l.reset_schedule) ELSE 0
             nextReset == IF l.reset_schedule # Nil THEN CronNext(l.reset_schedule[1], t) ELSE 0
         IN  <<[id |-> id, sort_order |-> l.sort_order, operator |-> l.operator,
                prev_reset |-> Uint32(prevReset), next_reset |-> Uint32(nextReset),
                create_time |-> l.create_time]>>

RECURSIVE LeaderboardsGet(_, _)
\* LeaderboardsGet: the views of the ids, in their order.
LeaderboardsGet(leaderboardIDs, t) ==
    IF leaderboardIDs = <<>> THEN <<>>
    ELSE LeaderboardView(Head(leaderboardIDs), t) \o LeaderboardsGet(Tail(leaderboardIDs), t)

\* The leaderboards of the reset machine: with and without a schedule,
\* created at or after the first instant, tournaments among them.
ResetDefinitions ==
    { [sort_order |-> LeaderboardSortOrderDescending, operator |-> LeaderboardOperatorBest,
       authoritative |-> FALSE, reset_schedule |-> schedule,
       is_tournament |-> tournament, end_time |-> 0, create_time |-> createTime] :
        schedule \in {Nil} \cup { <<e>> : e \in CronExprs },
        tournament \in BOOLEAN,
        createTime \in 0 .. CronCycle }

InitReset ==
    /\ leaderboards \in { [id \in {"lb1"} |-> d] : d \in ResetDefinitions }
    /\ store = {}
    /\ rankCache = {}
    /\ now = CronCycle
    /\ resp = NoResponse
    /\ procs = NoProcs

\* A client asks for leaderboards by id.
Get(leaderboardIDs) ==
    /\ resp' = Response("get", ErrNone, LeaderboardsGet(leaderboardIDs, now), <<>>, <<>>, <<>>, leaderboardIDs, <<now>>)
    /\ UNCHANGED <<leaderboards, store, rankCache, now, procs>>

\* Time passes.
TickReset ==
    /\ now < MaxResetNow
    /\ now' = now + 1
    /\ UNCHANGED <<leaderboards, store, rankCache, resp, procs>>

NextReset ==
    \/ \E leaderboardIDs \in {<<"lb1">>, <<"missing", "lb1">>} : Get(leaderboardIDs)
    \/ TickReset

SpecReset == InitReset /\ [][NextReset]_vars

\* ----------------------------------------------------- the expiry machine

\* The instants at which the tournaments of the machine end; 0 is no end.
EndTimes == {0, 2}

\* Leaderboards and tournaments, with and without a reset schedule.
ExpiryDefinitions ==
    { [Definition(LeaderboardSortOrderDescending, LeaderboardOperatorBest, FALSE, schedule)
         EXCEPT !.is_tournament = tournament, !.end_time = IF tournament THEN endTime ELSE 0] :
        schedule \in {Nil, <<ResetPeriod>>}, tournament \in BOOLEAN, endTime \in EndTimes }

\* The expiry of the records written at the first instant.
FirstExpiry(leaderboard) ==
    IF leaderboard.is_tournament THEN TournamentExpiry(leaderboard, 0) ELSE WriteExpiry(leaderboard, 0)

\* One owner has written once, at the first instant.
InitExpiry ==
    /\ leaderboards \in { [id \in {"lb1"} |-> d] : d \in ExpiryDefinitions }
    /\ store = { [StaticRow(1, 0) EXCEPT !.expiry_time = FirstExpiry(leaderboards["lb1"])] }
    /\ rankCache = RankInsertAll({}, store, leaderboards["lb1"].sort_order)
    /\ now = 0
    /\ resp = NoResponse
    /\ procs = NoProcs

\* The override_expiry values of the requests: none, and the expiries of
\* the machine.
OverrideExpiries == {0} \cup { e + ResetPeriod : e \in EndTimes } \cup EndTimes

\* Clients list and ask for the haystack of the owner; time passes.
NextExpiry ==
    \/ \E overrideExpiry \in OverrideExpiries : List("lb1", <<1>>, <<>>, {1}, overrideExpiry)
    \/ \E overrideExpiry \in OverrideExpiries : Haystack("lb1", <<>>, 1, 1, overrideExpiry)
    \/ TickReset

SpecExpiry == InitExpiry /\ [][NextExpiry]_vars

\* ------------------------------------------------------------ the claims

\* The requests of one owner that a claim ranges over.
Players(owner) == {UuidNil, owner}

Ascending(id) == leaderboards[id].sort_order = LeaderboardSortOrderAscending

\* (score, subscore) of row n is no worse than (s, ss) under the sort order.
NoWorse(n, s, ss, asc) ==
    IF asc THEN n.score < s \/ (n.score = s /\ n.subscore <= ss)
           ELSE n.score > s \/ (n.score = s /\ n.subscore >= ss)

\* C1: after a successful write with the best operator submitting (s, ss),
\* the key holds one row; over an existing row (a, b) it holds (min(a, s),
\* min(b, ss)) on an ascending leaderboard and (max(a, s), max(b, ss)) on a
\* descending one, the row being updated iff a or b is strictly worse than
\* the submitted value; the row read back, which is the record returned, is
\* no worse than (s, ss) under the sort order.
C1_BestKeepsBest ==
    \A id \in DOMAIN leaderboards, owner \in Owners, s \in Int64, ss \in Int64 :
    \A caller \in Players(owner), op \in Overrides :
        LET asc == Ascending(id)
            expiry == WriteExpiry(leaderboards[id], now)
            before == SelectRow(store, id, owner, expiry)
            out == LeaderboardRecordWrite(store, rankCache, now, caller, id, owner, "", s, ss, "", op)
            after == SelectRow(out.store, id, owner, expiry)
        IN  (EffectiveOperator(leaderboards[id], op) = LeaderboardOperatorBest /\ out.resp.err = ErrNone) =>
               /\ Cardinality(after) = 1
               /\ \A n \in after :
                    /\ NoWorse(n, s, ss, asc)
                    /\ out.resp.records = <<Record(n, out.resp.records[1].rank)>>
                    /\ before = {} => n.score = s /\ n.subscore = ss
                    /\ \A o \in before :
                         /\ n.score = IF asc THEN Min2(o.score, s) ELSE Max2(o.score, s)
                         /\ n.subscore = IF asc THEN Min2(o.subscore, ss) ELSE Max2(o.subscore, ss)
                         /\ (n # o) <=> IF asc THEN o.score > s \/ o.subscore > ss
                                               ELSE o.score < s \/ o.subscore < ss

\* C1's case: a best write on a descending leaderboard has updated an existing record.
C1_Witness ==
    /\ resp.op = "write" /\ resp.err = ErrNone
    /\ resp.info = <<LeaderboardOperatorBest, "insert">>
    /\ ~Ascending("lb1")
    /\ resp.records[1].num_score = 2

\* The writes the claim calls rejected by the operator filter.
Rejected(operator, asc, o, s, ss) ==
    CASE operator \in {LeaderboardOperatorIncrement, LeaderboardOperatorDecrement} ->
            s = 0 /\ ss = 0
      [] operator = LeaderboardOperatorSet -> o.score = s /\ o.subscore = ss
      [] OTHER ->
            IF asc THEN o.score <= s /\ o.subscore <= ss
                   ELSE o.score >= s /\ o.subscore >= ss

\* C2: for every key, a successful write that finds no row leaves one with
\* num_score = 1; one that finds a row leaves num_score as it was when the
\* operator filter rejects it (increment or decrement with (0, 0), a best or
\* set write that would change neither score nor subscore) and one higher
\* otherwise; a failed write and the rows of the other keys change nothing.
C2_NumScoreCountsUpdates ==
    \A id \in DOMAIN leaderboards, owner \in Owners, s \in Int64, ss \in Int64 :
    \A caller \in Players(owner), op \in Overrides :
        LET operator == EffectiveOperator(leaderboards[id], op)
            expiry == WriteExpiry(leaderboards[id], now)
            before == SelectRow(store, id, owner, expiry)
            out == LeaderboardRecordWrite(store, rankCache, now, caller, id, owner, "", s, ss, "", op)
            after == SelectRow(out.store, id, owner, expiry)
        IN  /\ out.store \ after = store \ before
            /\ out.resp.err # ErrNone => out.store = store
            /\ out.resp.err = ErrNone =>
                 /\ Cardinality(after) = 1
                 /\ \A n \in after :
                      /\ before = {} => n.num_score = 1
                      /\ \A o \in before :
                           n.num_score = IF Rejected(operator, Ascending(id), o, s, ss)
                                         THEN o.num_score ELSE o.num_score + 1
                      /\ out.resp.records[1].num_score = n.num_score

\* C2's case: a write the filter rejected has returned a record that an
\* earlier write had updated.
C2_Witness ==
    /\ resp.op = "write" /\ resp.err = ErrNone
    /\ resp.info[2] = "get"
    /\ resp.records[1].num_score = 2

\* The response is a page LeaderboardRecordsList built: a list request with
\* a limit, or a haystack request with a cursor.
IsListPage(r) == IsPage(r) /\ (r.op = "list" \/ r.req[3] # <<>>)

\* The first page of a listing, and the page a cursor leads to.
FirstPage(id, limit, overrideExpiry) ==
    LeaderboardRecordsList(store, rankCache, now, id, <<limit>>, <<>>, {}, overrideExpiry)

FollowPage(id, limit, overrideExpiry, cursor) ==
    LeaderboardRecordsList(store, rankCache, now, id, <<limit>>, cursor, {}, overrideExpiry)

\* C3: a page of the paginated list holds at most as many records as the
\* limit of its request.
C3_PageWithinLimit ==
    IsListPage(resp) => Len(resp.records) <= resp.req[2][1]

\* The records of a page and of the pages its next cursors lead to, at most
\* k pages further.
RECURSIVE Traverse(_, _, _, _, _)
Traverse(id, limit, overrideExpiry, page, k) ==
    IF page.next_cursor = <<>> \/ k = 0 THEN page.records
    ELSE page.records \o Traverse(id, limit, overrideExpiry,
                                  FollowPage(id, limit, overrideExpiry, page.next_cursor), k - 1)

\* What identifies a record in a listing, and its place in the order.
Listed(r) == <<r.owner_id, r.score, r.subscore>>

\* C4: listing from no cursor and following next_cursor until it is empty
\* returns the rows of the leaderboard period in the sort order, each once.
C4_TraversalExactlyOnce ==
    \A id \in DOMAIN leaderboards, limit \in 1 .. MaxLimit, overrideExpiry \in ExpiryOverrides :
        LET expiryTime == calculateExpiryOverride(overrideExpiry, leaderboards[id], now)[1]
            rows == OrderBy(Board(store, id, expiryTime), Ascending(id))
            seen == Traverse(id, limit, overrideExpiry, FirstPage(id, limit, overrideExpiry), MaxListRows)
        IN  [i \in 1 .. Len(seen) |-> Listed(seen[i])] = [i \in 1 .. Len(rows) |-> Listed(rows[i])]

\* C5: for a first page P with a next cursor, and for the page after it if
\* that has one too, the page Q the next cursor leads to has a prev cursor,
\* and that leads to a page with the records of P, ranks included.
C5_ForwardThenBack ==
    \A id \in DOMAIN leaderboards, limit \in 1 .. MaxLimit, overrideExpiry \in ExpiryOverrides :
        LET first == FirstPage(id, limit, overrideExpiry)
            second == FollowPage(id, limit, overrideExpiry, first.next_cursor)
        IN  \A P \in {first} \cup (IF first.next_cursor # <<>> THEN {second} ELSE {}) :
                P.next_cursor # <<>> =>
                    LET Q == FollowPage(id, limit, overrideExpiry, P.next_cursor)
                    IN  /\ Q.prev_cursor # <<>>
                        /\ FollowPage(id, limit, overrideExpiry, Q.prev_cursor).records = P.records

\* C6: in a page of the paginated list, reached with no cursor, a next
\* cursor or a prev cursor, each record ranks after the one before it under
\* the sort order and has a greater rank.
C6_RanksMonotonic ==
    IsListPage(resp) =>
        \A i \in 1 .. Len(resp.records) - 1 :
            /\ RanksBefore(resp.records[i], resp.records[i + 1], leaderboards[resp.req[1]].sort_order)
            /\ resp.records[i].rank < resp.records[i + 1].rank

\* The cursors a client holds: those of the last page.
HeldCursors == IF IsPage(resp) THEN {resp.next_cursor, resp.prev_cursor} \ {<<>>} ELSE {}

\* The leaderboard or the expiry of a token differs from the request's.
Mismatched(token, id, expiryTime) == token[2] # id \/ token[3] # expiryTime

\* The limits of a list request: none, or a number.
OptionalLimits == {Nil} \cup { <<limit>> : limit \in 1 .. MaxLimit }

C8_HaystackHoldsOwner ==
    \A id \in DOMAIN leaderboards, owner \in ListOwners, overrideExpiry \in ExpiryOverrides :
    \A limit \in 1 .. MaxLimit + 1 :
        LET expiryTime == calculateExpiryOverride(overrideExpiry, leaderboards[id], now)[1]
            own == SelectRow(store, id, owner, expiryTime)
            out == LeaderboardRecordsHaystack(store, rankCache, now, id, <<>>, owner, limit, overrideExpiry)
            held == { i \in 1 .. Len(out.records) : out.records[i].owner_id = owner }
        IN  /\ out.err = ErrNone
            /\ Len(out.records) <= limit
            /\ own = {} => out.records = <<>>
            /\ own # {} => Cardinality(held) = 1
            /\ \A i \in held : \E r \in own : out.records[i] = Record(r, out.records[i].rank)

\* C8's case: a haystack of two around an owner with a row on either side
\* has returned the owner and one neighbour.
C8_Witness ==
    /\ resp.op = "haystack" /\ resp.err = ErrNone
    /\ resp.req[3] = <<>> /\ resp.req[2] = <<2>>
    /\ Len(resp.records) = 2
    /\ Cardinality(Board(store, "lb1", resp.info[1])) = 3
    /\ \E r \in Board(store, "lb1", resp.info[1]) : KeyLess(r, CHOOSE o \in SelectRow(store, "lb1", resp.req[4], resp.info[1]) : TRUE)
    /\ \E r \in Board(store, "lb1", resp.info[1]) : KeyLess(CHOOSE o \in SelectRow(store, "lb1", resp.req[4], resp.info[1]) : TRUE, r)
    /\ \E i \in 1 .. 2 : resp.records[i].owner_id = resp.req[4]

\* C9: on an authoritative leaderboard a write and a delete of a player fail
\* with LeaderboardAuthoritative and change neither the store nor the rank
\* index; the same write of the server passes the gate: it fails only with an
\* error of the store, and otherwise leaves and returns the key's row.
C9_AuthoritativeGate ==
    \A id \in DOMAIN leaderboards, owner \in Owners, s \in Int64, ss \in Int64, op \in Overrides :
        LET expiry == WriteExpiry(leaderboards[id], now)
            w == LeaderboardRecordWrite(store, rankCache, now, owner, id, owner, "", s, ss, "", op)
            d == LeaderboardRecordDelete(store, rankCache, now, owner, id, owner)
            sw == LeaderboardRecordWrite(store, rankCache, now, UuidNil, id, owner, "", s, ss, "", op)
            sd == LeaderboardRecordDelete(store, rankCache, now, UuidNil, id, owner)
        IN  leaderboards[id].authoritative =>
               /\ w.resp.err = ErrLeaderboardAuthoritative /\ w.resp.records = <<>>
               /\ w.store = store /\ w.rankCache = rankCache
               /\ d.resp.err = ErrLeaderboardAuthoritative
               /\ d.store = store /\ d.rankCache = rankCache
               /\ sw.resp.err \in {ErrNone, ErrStore}
               /\ sw.resp.err = ErrNone =>
                    /\ Len(sw.resp.records) = 1
                    /\ SelectRow(sw.store, id, owner, expiry) # {}
               /\ SelectRow(store, id, owner, expiry) = {} => sw.resp.err = ErrNone
               /\ sd.resp.err = ErrNone
               /\ SelectRow(sd.store, id, owner, expiry) = {}

\* C9's case: the authoritative leaderboard holds a record the server wrote
\* and has just refused a player's write.
C9_Witness ==
    /\ leaderboards["lb1"].authoritative
    /\ store # {}
    /\ resp.op = "write" /\ resp.err = ErrLeaderboardAuthoritative

\* C10: the rank index is current after every completed operation: it holds
\* an entry for (leaderboard_id, expiry_time, owner_id) iff the store holds a
\* row for that key, and the entry ranks the stored (score, subscore).
C10_RankIndexCurrent ==
    /\ \A r \in store : \E e \in rankCache :
          /\ e.leaderboard_id = r.leaderboard_id /\ e.expiry_time = r.expiry_time
          /\ e.owner_id = r.owner_id /\ e.score = r.score /\ e.subscore = r.subscore
    /\ \A e \in rankCache : \E r \in store :
          /\ e.leaderboard_id = r.leaderboard_id /\ e.expiry_time = r.expiry_time
          /\ e.owner_id = r.owner_id /\ e.score = r.score /\ e.subscore = r.subscore

\* The processes whose upsert has been answered by the store.
Upserted == { p \in Procs : procs[p].pc \in {"read", "rank", "done"} }

\* The orders in which the writes of a set of processes can follow one another.
Orders(S) ==
    { o \in [1 .. Cardinality(S) -> S] : \A i, j \in 1 .. Cardinality(S) : i # j => o[i] # o[j] }

\* The store after the writes of the processes order[i], order[i + 1], ...
\* applied to st one after another.
RECURSIVE OneAfterAnother(_, _, _)
OneAfterAnother(st, order, i) ==
    IF i > Len(order) THEN st
    ELSE OneAfterAnother(RaceUpsert(st, procs[order[i]].score).store, order, i + 1)

\* C11: while no delete has run, the store holds at most one row for the
\* raced key, and it is the store that the writes answered so far leave
\* when applied to the empty store one after another in some order.
C11_WritesSerialize ==
    resp = NoResponse =>
        /\ Cardinality(SelectRow(store, "lb1", RaceOwner, WriteExpiry(leaderboards["lb1"], now))) <= 1
        /\ \E order \in Orders(Upserted) : store = OneAfterAnother({}, order, 1)

\* C12: a write whose upsert returned no row, or failed on the primary key,
\* returns without an error.
C12_FallbackReturnsRow ==
    \A p \in Procs :
        (procs # NoProcs /\ procs[p].pc = "done" /\ procs[p].fallback # "none") =>
            procs[p].resp.err = ErrNone

\* The metadata and the usernames a write may submit; "" is none.
Metadatas == {"", "{\"m\":1}"}
Usernames == {"", "u"}

\* C13: a successful decrement write of (s, ss) to a key whose row holds
\* (a, b) leaves the row holding (max(a - s, 0), max(b - ss, 0)), so neither
\* field is negative after it, whatever the row held.
C13_DecrementClampsAtZero ==
    \A id \in DOMAIN leaderboards, owner \in Owners, s \in Int64, ss \in Int64, op \in Overrides :
        LET expiry == WriteExpiry(leaderboards[id], now)
            before == SelectRow(store, id, owner, expiry)
            out == LeaderboardRecordWrite(store, rankCache, now, UuidNil, id, owner, "", s, ss, "", op)
            after == SelectRow(out.store, id, owner, expiry)
        IN  (EffectiveOperator(leaderboards[id], op) = LeaderboardOperatorDecrement /\ out.resp.err = ErrNone) =>
               \A o \in before :
                  /\ Cardinality(after) = 1
                  /\ \A n \in after :
                       /\ n.score = Max2(o.score - s, 0)
                       /\ n.subscore = Max2(o.subscore - ss, 0)
                       /\ n.score >= 0 /\ n.subscore >= 0

\* C14: a successful write to a key without a row creates the row with the
\* submitted score and subscore under every operator, num_score = 1, and the
\* submitted metadata, or '{}' when none is submitted.
C14_InsertStoresSubmitted ==
    \A id \in DOMAIN leaderboards, owner \in Owners, s \in Int64, ss \in Int64, op \in Overrides :
    \A metadata \in Metadatas :
        LET expiry == WriteExpiry(leaderboards[id], now)
            before == SelectRow(store, id, owner, expiry)
            out == LeaderboardRecordWrite(store, rankCache, now, UuidNil, id, owner, "", s, ss, metadata, op)
            after == SelectRow(out.store, id, owner, expiry)
        IN  (before = {} /\ out.resp.err = ErrNone) =>
               /\ Cardinality(after) = 1
               /\ \A n \in after :
                    /\ n.score = s /\ n.subscore = ss
                    /\ n.num_score = 1
                    /\ n.metadata = IF metadata = "" THEN <<EmptyJSON>> ELSE <<metadata>>

\* C15: a successful write to a key with a row leaves the row's metadata the
\* submitted one when it is not empty and the stored one when it is, and
\* likewise its username, under every operator and for every submitted score.
C15_MetadataAndUsernameMerge ==
    \A id \in DOMAIN leaderboards, owner \in Owners, s \in Int64, ss \in Int64, op \in Overrides :
    \A metadata \in Metadatas, username \in Usernames :
        LET expiry == WriteExpiry(leaderboards[id], now)
            before == SelectRow(store, id, owner, expiry)
            out == LeaderboardRecordWrite(store, rankCache, now, UuidNil, id, owner, username, s, ss, metadata, op)
            after == SelectRow(out.store, id, owner, expiry)
        IN  out.resp.err = ErrNone =>
               \A o \in before :
                  /\ Cardinality(after) = 1
                  /\ \A n \in after :
                       /\ n.metadata = IF metadata = "" THEN o.metadata ELSE <<metadata>>
                       /\ n.username = IF username = "" THEN o.username ELSE <<username>>

\* C16: a successful increment write of (s, ss) to a key whose row holds
\* (a, b) leaves the row holding (a + s, b + ss), and returns it.
C16_IncrementAdds ==
    \A id \in DOMAIN leaderboards, owner \in Owners, s \in Int64, ss \in Int64 :
    \A caller \in Players(owner), op \in Overrides :
        LET expiry == WriteExpiry(leaderboards[id], now)
            before == SelectRow(store, id, owner, expiry)
            out == LeaderboardRecordWrite(store, rankCache, now, caller, id, owner, "", s, ss, "", op)
            after == SelectRow(out.store, id, owner, expiry)
        IN  (EffectiveOperator(leaderboards[id], op) = LeaderboardOperatorIncrement /\ out.resp.err = ErrNone) =>
               \A o \in before :
                  /\ Cardinality(after) = 1
                  /\ \A n \in after :
                       /\ n.score = o.score + s
                       /\ n.subscore = o.subscore + ss
                       /\ out.resp.records[1].score = n.score
                       /\ out.resp.records[1].subscore = n.subscore

\* C16's case: an increment write has added a delta to an existing record.
C16_Witness ==
    /\ resp.op = "write" /\ resp.err = ErrNone
    /\ resp.info = <<LeaderboardOperatorIncrement, "insert">>
    /\ resp.records[1].num_score = 2
    /\ resp.records[1].score # 0

\* C17: a successful set write of (s, ss) leaves the key's row holding
\* exactly (s, ss), whether the key had a row or not and whatever it held,
\* and returns it.
C17_SetStoresSubmitted ==
    \A id \in DOMAIN leaderboards, owner \in Owners, s \in Int64, ss \in Int64 :
    \A caller \in Players(owner), op \in Overrides :
        LET expiry == WriteExpiry(leaderboards[id], now)
            out == LeaderboardRecordWrite(store, rankCache, now, caller, id, owner, "", s, ss, "", op)
            after == SelectRow(out.store, id, owner, expiry)
        IN  (EffectiveOperator(leaderboards[id], op) = LeaderboardOperatorSet /\ out.resp.err = ErrNone) =>
               /\ Cardinality(after) = 1
               /\ \A n \in after :
                    /\ n.score = s /\ n.subscore = ss
                    /\ out.resp.records[1].score = s
                    /\ out.resp.records[1].subscore = ss

\* C17's case: a set write has replaced the score of an existing record.
C17_Witness ==
    /\ resp.op = "write" /\ resp.err = ErrNone
    /\ resp.info = <<LeaderboardOperatorSet, "insert">>
    /\ resp.records[1].num_score = 2

\* The store and the rank index after what may run between two writes to
\* the key of an owner: nothing, a delete of the key, an owner-wide delete.
Between(out, owner) ==
    LET deleted == LeaderboardRecordDelete(out.store, out.rankCache, now, UuidNil, "lb1", owner)
    IN  { [store |-> out.store, rankCache |-> out.rankCache],
          [store |-> deleted.store, rankCache |-> deleted.rankCache],
          [store |-> LeaderboardRecordsDeleteAll(out.store, owner), rankCache |-> out.rankCache] }

\* C18: of two successful writes to one key, the later returns a num_score
\* no lower than the earlier, whether nothing, a delete of the key or an
\* owner-wide delete runs between them.
C18_NumScoreNeverDecreases ==
    \A owner \in Owners, s1 \in {0, 1}, s2 \in {0, 1} :
    \A op \in {Operator_NO_OVERRIDE, Operator_SET} :
        LET first == LeaderboardRecordWrite(store, rankCache, now, UuidNil, "lb1", owner, "", s1, 0, "", op)
        IN  \A b \in Between(first, owner) :
               LET second == LeaderboardRecordWrite(b.store, b.rankCache, now, UuidNil, "lb1", owner, "", s2, 0, "", op)
               IN  (first.resp.err = ErrNone /\ second.resp.err = ErrNone) =>
                      second.resp.records[1].num_score >= first.resp.records[1].num_score

\* C19: the records of every page of the paginated list, whether asked
\* without a cursor or through a next or a previous cursor, follow one
\* another in the order of (score, subscore, owner_id), upwards on an
\* ascending leaderboard and downwards on a descending one.
C19_PageInSortOrder ==
    IsListPage(resp) =>
        \A i \in 1 .. Len(resp.records) - 1 :
            RanksBefore(resp.records[i], resp.records[i + 1], leaderboards[resp.req[1]].sort_order)

\* C19's case: a previous page of a descending leaderboard holds two records
\* tied on score and subscore, the larger owner id first.
C19_Witness ==
    /\ IsListPage(resp) /\ resp.op = "list"
    /\ Len(resp.req[3]) = 7 /\ ~resp.req[3][1]
    /\ resp.req[1] = "lb1" /\ ~Ascending("lb1")
    /\ Len(resp.records) >= 2
    /\ resp.records[1].score = resp.records[2].score
    /\ resp.records[1].subscore = resp.records[2].subscore
    /\ resp.records[1].owner_id > resp.records[2].owner_id

\* The rows of lb1 written under an expiry that is no longer the current one.
Stale == { r \in store : r.leaderboard_id = "lb1" /\ r.expiry_time # WriteExpiry(leaderboards["lb1"], now) }

\* Every record of the sequence belongs to the period that expires at expiryTime.
AllOf(records, expiryTime) ==
    \A i \in 1 .. Len(records) : records[i].expiry_time = expiryTime

\* The sequence holds the record of the row.
Holds(records, r) ==
    \E i \in 1 .. Len(records) : records[i] = Record(r, records[i].rank)

\* C20: on a resetting leaderboard the rows of a past period stay in the
\* store; no list and no haystack request with override_expiry = 0 returns
\* one, with or without a cursor and with or without owner ids; a list and
\* a haystack request with override_expiry set to their expiry return them;
\* and a successful write leaves them as they are and returns a record of
\* the current period, a new one with num_score = 1 when the owner has none
\* in it.
C20_ExpiredRecordsHidden ==
    LET current == WriteExpiry(leaderboards["lb1"], now)
    IN  leaderboards["lb1"].reset_schedule # Nil =>
          /\ \A limit \in 1 .. MaxListRows, cursor \in {<<>>} \cup HeldCursors :
             \A ownerIds \in {{}} \cup {{o} : o \in ListOwners} :
                LET page == LeaderboardRecordsList(store, rankCache, now, "lb1", <<limit>>, cursor, ownerIds, 0)
                IN  AllOf(page.records, current) /\ AllOf(page.owner_records, current)
          /\ \A owner \in ListOwners, limit \in 1 .. MaxListRows :
                AllOf(LeaderboardRecordsHaystack(store, rankCache, now, "lb1", <<>>, owner, limit, 0).records, current)
          /\ \A r \in Stale :
                /\ Holds(FirstPage("lb1", MaxListRows, r.expiry_time).records, r)
                /\ Holds(LeaderboardRecordsList(store, rankCache, now, "lb1", Nil, <<>>, {r.owner_id}, r.expiry_time).owner_records, r)
                /\ Holds(LeaderboardRecordsHaystack(store, rankCache, now, "lb1", <<>>, r.owner_id, 1, r.expiry_time).records, r)
          /\ \A owner \in ListOwners, s \in ListScores :
                LET out == LeaderboardRecordWrite(store, rankCache, now, UuidNil, "lb1", owner, "", s[1], s[2], "", Operator_NO_OVERRIDE)
                IN  out.resp.err = ErrNone =>
                       /\ Stale \subseteq out.store
                       /\ out.resp.records[1].expiry_time = current
                       /\ SelectRow(store, "lb1", owner, current) = {} =>
                             /\ out.resp.records[1].num_score = 1
                             /\ Cardinality(out.store) = Cardinality(store) + 1

\* C20's case: after the reset an owner holds a record of the past period
\* and one of the current period, and a list request with override_expiry
\* set to the past expiry has returned the past record.
C20_Witness ==
    /\ leaderboards["lb1"].reset_schedule # Nil /\ now > 0
    /\ \E r \in Stale : \E n \in store \ Stale : n.owner_id = r.owner_id
    /\ resp.op = "list" /\ resp.err = ErrNone /\ resp.req[5] = ResetPeriod
    /\ Len(resp.records) >= 1
    /\ \E r \in Stale : Holds(resp.records, r)

\* Tokens a list request fails on: one that does not decode, and the cursor
\* of another leaderboard.
BadCursors ==
    {MalformedCursor, marshalLeaderboardRecordsListCursor(Cursor(TRUE, "other", 0, 0, 0, 1, 1))}

\* The errors returned before the store is reached.
EarlyErrors ==
    {ErrLeaderboardNotFound, ErrLeaderboardAuthoritative, ErrInvalidOperator, ErrLeaderboardInvalidCursor}

\* C21: a write that returns an error leaves the store and the rank index
\* as they were; a write that fails with LeaderboardNotFound,
\* LeaderboardAuthoritative or InvalidOperator, and a list request that
\* fails on its cursor or its leaderboard, return what they return whatever
\* the store and the rank index hold.
C21_ErrorsChangeNothing ==
    /\ \A id \in RequestIds, owner \in Owners, s \in Int64, ss \in {0, MaxInt64} :
       \A caller \in Players(owner), op \in Overrides \cup {Operator_UNKNOWN} :
          LET out == LeaderboardRecordWrite(store, rankCache, now, caller, id, owner, "", s, ss, "", op)
          IN  out.resp.err # ErrNone =>
                 /\ out.store = store
                 /\ out.rankCache = rankCache
                 /\ out.resp.err \in EarlyErrors =>
                       out.resp = LeaderboardRecordWrite({}, {}, now, caller, id, owner, "", s, ss, "", op).resp
    /\ \A id \in RequestIds, cursor \in BadCursors :
          LET page == LeaderboardRecordsList(store, rankCache, now, id, <<1>>, cursor, {}, 0)
          IN  /\ page.err \in EarlyErrors
              /\ page = LeaderboardRecordsList({}, {}, now, id, <<1>>, cursor, {}, 0)

\* C21's case: a write to an existing record has failed with an error of
\* the store.
C21_Witness ==
    /\ resp.op = "write" /\ resp.err = ErrStore
    /\ store # {}

\* The rows of the static leaderboard in its sort order, best first.
FullOrder == OrderBy(Board(store, "lb1", 0), Ascending("lb1"))

\* The last response is the haystack of an owner who holds a record, asked
\* without a cursor for at least two records.
IsWindow(r) ==
    /\ r.op = "haystack" /\ r.err = ErrNone
    /\ r.req[3] = <<>> /\ r.req[2][1] >= 2
    /\ SelectRow(store, "lb1", r.req[4], 0) # {}

\* C22: in a static store the haystack of an owner who holds a record,
\* asked without a cursor for limit >= 2 records, returns min(limit, N) of
\* the N records of the leaderboard: one run of consecutive places of the
\* sort order, best first, each record with its place as rank, the owner's
\* among them.
C22_HaystackWindow ==
    IsWindow(resp) =>
        LET n == Len(resp.records)
        IN  /\ n = Min2(resp.req[2][1], Len(FullOrder))
            /\ \E k \in 0 .. Len(FullOrder) - n :
                  \A i \in 1 .. n : resp.records[i] = Record(FullOrder[k + i], k + i)
            /\ \E i \in 1 .. n : resp.records[i].owner_id = resp.req[4]

\* C22's case: five owners on a descending leaderboard, and the haystack of
\* three around the best of them has returned the places 1, 2, 3 and a
\* previous cursor.
C22_Witness ==
    /\ IsWindow(resp) /\ resp.req[2][1] = 3
    /\ ~Ascending("lb1") /\ Len(FullOrder) = 5
    /\ FullOrder[1].owner_id = resp.req[4]
    /\ Len(resp.records) = 3
    /\ \A i \in 1 .. 3 : resp.records[i].rank = i
    /\ resp.prev_cursor # <<>>

\* The latest reset instant of the expression at or before t.
LatestReset(expr, t) ==
    CHOOSE u \in t - expr.cycle + 1 .. t :
        IsReset(expr, u) /\ \A v \in u + 1 .. t : ~IsReset(expr, v)

\* C23: the view of a leaderboard with a schedule reports as prev_reset the
\* latest reset instant of the schedule at or before now, or 0 when that
\* instant precedes the leaderboard's create_time, and as next_reset the
\* first one after now, so that a prev_reset other than 0 satisfies
\* prev_reset <= now < next_reset; without a schedule both are 0.
C23_PrevResetIsPriorReset ==
    \A id \in DOMAIN leaderboards :
        LET l == leaderboards[id]
            views == LeaderboardsGet(<<id>>, now)
        IN  ~l.is_tournament =>
               /\ Len(views) = 1
               /\ l.reset_schedule = Nil => views[1].prev_reset = 0 /\ views[1].next_reset = 0
               /\ l.reset_schedule # Nil =>
                     LET latest == LatestReset(l.reset_schedule[1], now)
                     IN  /\ views[1].prev_reset = IF latest < l.create_time THEN 0 ELSE latest
                         /\ views[1].prev_reset # 0 => views[1].prev_reset <= now
                         /\ now < views[1].next_reset

\* The place of the record in the sort order of the static leaderboard, 0
\* when the leaderboard does not hold it.
Place(record) ==
    LET at == { k \in 1 .. Len(FullOrder) : FullOrder[k].owner_id = record.owner_id }
    IN  IF at = {} THEN 0 ELSE CHOOSE k \in at : TRUE

\* C24: in a static store every record of a page of the paginated list,
\* asked without a cursor or reached by following next and previous
\* cursors, carries as rank its place in the sort order of the leaderboard.
C24_RankIsPlace ==
    IsListPage(resp) =>
        \A i \in 1 .. Len(resp.records) : resp.records[i].rank = Place(resp.records[i])

\* The last response is a haystack window: the haystack of an owner who
\* holds a record, asked without a cursor.
IsHaystack(r) ==
    /\ r.op = "haystack" /\ r.err = ErrNone
    /\ r.req[3] = <<>> /\ r.records # <<>>

\* The page a list request of the page size of the last response returns
\* for the cursor.
Continuation(cursor) ==
    LeaderboardRecordsList(store, rankCache, now, "lb1", resp.req[2], cursor, {}, 0)

\* No record of the page is a record of the last response.
Apart(page) ==
    \A i \in 1 .. Len(page.records), j \in 1 .. Len(resp.records) :
        page.records[i].owner_id # resp.records[j].owner_id

\* C25: the page that the next_cursor of a haystack window leads to holds
\* only records that rank before the first record of the window, the page
\* that its prev_cursor leads to only records that rank after the last,
\* and neither holds a record of the window.
C25_HaystackCursorsLeadOutward ==
    IsHaystack(resp) =>
        LET sortOrder == leaderboards["lb1"].sort_order
            above == Continuation(resp.next_cursor)
            below == Continuation(resp.prev_cursor)
        IN  /\ resp.next_cursor # <<>> =>
                 /\ resp.next_cursor[1] = FALSE
                 /\ above.err = ErrNone /\ Apart(above)
                 /\ \A i \in 1 .. Len(above.records) :
                       RanksBefore(above.records[i], resp.records[1], sortOrder)
            /\ resp.prev_cursor # <<>> =>
                 /\ resp.prev_cursor[1] = TRUE
                 /\ below.err = ErrNone /\ Apart(below)
                 /\ \A i \in 1 .. Len(below.records) :
                       RanksBefore(resp.records[Len(resp.records)], below.records[i], sortOrder)

\* C25's case: a haystack window has a next_cursor, and the page it leads
\* to holds a record.
C25_Witness ==
    /\ IsHaystack(resp) /\ resp.next_cursor # <<>>
    /\ Continuation(resp.next_cursor).records # <<>>
    /\ Len(resp.records) >= 2

\* C26: a successful write that the operator filter rejects on an existing
\* key leaves the store and the rank index as they were, returns the stored
\* record and asks the rank index for the rank (get); every other
\* successful write inserts into the rank index once, with the score and
\* subscore of the row the store returned, and leaves the index otherwise
\* as it was.
C26_RankIndexCalls ==
    \A id \in DOMAIN leaderboards, owner \in Owners, s \in Int64, ss \in {0, MaxInt64}, op \in Overrides :
        LET l == leaderboards[id]
            expiry == WriteExpiry(l, now)
            before == SelectRow(store, id, owner, expiry)
            out == LeaderboardRecordWrite(store, rankCache, now, UuidNil, id, owner, "", s, ss, "", op)
            after == SelectRow(out.store, id, owner, expiry)
            rejected == \E o \in before : Rejected(EffectiveOperator(l, op), Ascending(id), o, s, ss)
        IN  out.resp.err = ErrNone =>
               /\ rejected =>
                     /\ out.store = store /\ out.rankCache = rankCache
                     /\ out.resp.info[2] = "get"
                     /\ \A o \in before :
                           out.resp.records = <<Record(o, RankGet(rankCache, id, expiry, owner))>>
               /\ ~rejected =>
                     /\ out.resp.info[2] = "insert"
                     /\ \A n \in after :
                           /\ out.rankCache = RankInsert(rankCache, id, expiry, l.sort_order, owner, n.score, n.subscore)
                           /\ out.resp.records = <<Record(n, RankGet(out.rankCache, id, expiry, owner))>>

\* C26's case: a set write equal to the stored record has been rejected by
\* the filter and answered from the rank index.
C26_Witness ==
    /\ resp.op = "write" /\ resp.err = ErrNone
    /\ resp.info = <<LeaderboardOperatorSet, "get">>
    /\ rankCache # {}
    /\ resp.records[1].rank >= 1

\* C27: a non-zero override_expiry resolves to (override, true), for a
\* tournament as well; with override 0 a tournament whose expiry is not 0
\* and not after now resolves to (0, false), and the list and the haystack
\* request return no record and no error whatever the store holds; a
\* leaderboard with a schedule resolves to the first reset instant after
\* now, and one without a schedule to (0, true).
C27_ExpiryResolution ==
    \A id \in DOMAIN leaderboards, overrideExpiry \in OverrideExpiries :
        LET l == leaderboards[id]
            expiry == calculateExpiryOverride(overrideExpiry, l, now)
            listed == LeaderboardRecordsList(store, rankCache, now, id, <<1>>, <<>>, {1}, overrideExpiry)
            around == LeaderboardRecordsHaystack(store, rankCache, now, id, <<>>, 1, 1, overrideExpiry)
            past == l.is_tournament /\ TournamentExpiry(l, now) # 0 /\ TournamentExpiry(l, now) <= now
        IN  /\ overrideExpiry # 0 =>
                 /\ expiry = <<overrideExpiry, TRUE>>
                 /\ listed.err = ErrNone /\ listed.info = <<overrideExpiry>>
                 /\ around.err = ErrNone
                 /\ \A r \in SelectRow(store, id, 1, overrideExpiry) :
                       Holds(listed.records, r) /\ Holds(listed.owner_records, r) /\ Holds(around.records, r)
            /\ (overrideExpiry = 0 /\ past) =>
                 /\ expiry = <<0, FALSE>>
                 /\ listed.err = ErrNone /\ listed.records = <<>> /\ listed.owner_records = <<>>
                 /\ around.err = ErrNone /\ around.records = <<>>
                 /\ listed = LeaderboardRecordsList({}, {}, now, id, <<1>>, <<>>, {1}, overrideExpiry)
                 /\ around = LeaderboardRecordsHaystack({}, {}, now, id, <<>>, 1, 1, overrideExpiry)
            /\ (overrideExpiry = 0 /\ ~l.is_tournament /\ l.reset_schedule # Nil) =>
                 /\ expiry[2] /\ expiry[1] > now
                 /\ expiry[1] % l.reset_schedule[1] = 0
                 /\ expiry[1] - l.reset_schedule[1] <= now
            /\ (overrideExpiry = 0 /\ ~l.is_tournament /\ l.reset_schedule = Nil) =>
                 expiry = <<0, TRUE>>

\* C27's case: a tournament has ended, its record is in the store, and a
\* list request without override has returned nothing.
C27_Witness ==
    /\ leaderboards["lb1"].is_tournament
    /\ leaderboards["lb1"].end_time # 0 /\ leaderboards["lb1"].end_time <= now
    /\ store # {}
    /\ resp.op = "list" /\ resp.err = ErrNone /\ resp.req[5] = 0
    /\ resp.records = <<>> /\ resp.owner_records = <<>>

\* C28: in a static store a haystack window (limit >= 2) comes with an
\* empty next_cursor only when no record ranks before its first record, and
\* with an empty prev_cursor only when no record ranks after its last.
C28_HaystackCursorsComplete ==
    IsWindow(resp) =>
        LET sortOrder == leaderboards["lb1"].sort_order
            board == Board(store, "lb1", 0)
        IN  /\ resp.next_cursor = <<>> =>
                 ~\E r \in board : RanksBefore(r, resp.records[1], sortOrder)
            /\ resp.prev_cursor = <<>> =>
                 ~\E r \in board : RanksBefore(resp.records[Len(resp.records)], r, sortOrder)

====
